---- MODULE Spec2Model ----
(***************************************************************************)
(* Model of translate_helper.py (Evochron Legacy SE Translation Helper).   *)
(* Text is a sequence of one-character strings; every Python string        *)
(* operation the program uses is modelled by an operator that computes it  *)
(* character by character.                                                 *)
(***************************************************************************)
EXTENDS Integers, Sequences, FiniteSets, TLC

(* ------------------------------------------------------------------ *)
(* Character classes (Python str.strip / regex \s, \d, [A-Za-z0-9])    *)
(* ------------------------------------------------------------------ *)
Whitespace == {" ", "\t", "\n", "\r"}

Digits == {"0", "1", "2", "3", "4", "5", "6", "7", "8", "9"}

DigitChar == <<"0", "1", "2", "3", "4", "5", "6", "7", "8", "9">>

Alpha ==
  {"a","b","c","d","e","f","g","h","i","j","k","l","m","n","o","p","q","r",
   "s","t","u","v","w","x","y","z","A","B","C","D","E","F","G","H","I","J",
   "K","L","M","N","O","P","Q","R","S","T","U","V","W","X","Y","Z"}

Alnum == Alpha \cup Digits

(* ------------------------------------------------------------------ *)
(* Python string primitives                                            *)
(* ------------------------------------------------------------------ *)
RECURSIVE LStrip(_)
LStrip(s) ==
  IF s = <<>> THEN <<>>
  ELSE IF Head(s) \in Whitespace THEN LStrip(Tail(s)) ELSE s

RECURSIVE RStrip(_)
RStrip(s) ==
  IF s = <<>> THEN <<>>
  ELSE IF s[Len(s)] \in Whitespace THEN RStrip(SubSeq(s, 1, Len(s) - 1)) ELSE s

\* str.strip()
Strip(s) == RStrip(LStrip(s))

\* s[i:] (i is a 1-based position)
From(s, i) == SubSeq(s, i, Len(s))

\* s.startswith(p)
StartsWith(s, p) == Len(s) >= Len(p) /\ SubSeq(s, 1, Len(p)) = p

\* the least position of a set of positions, 0 for the empty set
First(positions) ==
  IF positions = {} THEN 0
  ELSE CHOOSE k \in positions : \A j \in positions : k <= j

\* position of the first occurrence of character c at or after i, 0 if none
IndexOf(s, c, i) == First({k \in i..Len(s) : s[k] = c})

\* position of the first occurrence of the substring p at or after i, 0 if none
Find(s, p, i) ==
  First({k \in i..(Len(s) - Len(p) + 1) : SubSeq(s, k, k + Len(p) - 1) = p})

\* p in s
Contains(s, p) == Find(s, p, 1) # 0

\* s.split(c): always at least one piece
RECURSIVE Split(_, _)
Split(s, c) ==
  LET k == IndexOf(s, c, 1)
  IN IF k = 0 THEN <<s>>
     ELSE <<SubSeq(s, 1, k - 1)>> \o Split(From(s, k + 1), c)

\* s.split(c, 1)
Split1(s, c) ==
  LET k == IndexOf(s, c, 1)
  IN IF k = 0 THEN <<s>> ELSE <<SubSeq(s, 1, k - 1), From(s, k + 1)>>

\* sep.join(parts)
RECURSIVE Join(_, _)
Join(parts, sep) ==
  IF parts = <<>> THEN <<>>
  ELSE IF Len(parts) = 1 THEN parts[1]
  ELSE parts[1] \o sep \o Join(Tail(parts), sep)

\* ''.join(parts)
Concat(parts) == Join(parts, <<>>)

\* s.replace(old, new), old non-empty: leftmost non-overlapping occurrences
RECURSIVE Replace(_, _, _)
Replace(s, old, new) ==
  LET k == Find(s, old, 1)
  IN IF k = 0 THEN s
     ELSE SubSeq(s, 1, k - 1) \o new \o Replace(From(s, k + Len(old)), old, new)

\* iteration over a text file: the lines, each with its line ending
RECURSIVE ReadLines(_)
ReadLines(s) ==
  LET k == IndexOf(s, "\n", 1)
  IN IF s = <<>> THEN <<>>
     ELSE IF k = 0 THEN <<s>>
     ELSE <<SubSeq(s, 1, k)>> \o ReadLines(From(s, k + 1))

\* str(n) for a natural number
RECURSIVE Str(_)
Str(n) ==
  IF n < 10 THEN <<DigitChar[n + 1]>>
  ELSE Str(n \div 10) \o <<DigitChar[(n % 10) + 1]>>

(* ------------------------------------------------------------------ *)
(* Regular-expression pieces.  A position is the 1-based index of the  *)
(* next character to read; 0 means "no match".                         *)
(* ------------------------------------------------------------------ *)
\* a literal
Lit(s, i, p) ==
  IF i = 0 THEN 0
  ELSE IF i + Len(p) - 1 <= Len(s) /\ SubSeq(s, i, i + Len(p) - 1) = p
       THEN i + Len(p) ELSE 0

\* end of the longest run of characters of class at i (i itself if none)
RECURSIVE Run(_, _, _)
Run(s, i, class) ==
  IF i <= Len(s) /\ s[i] \in class THEN Run(s, i + 1, class) ELSE i

\* class+ (greedy; nothing that follows it in the patterns can match a
\* character of class, so no backtracking into the run is possible)
Plus(s, i, class) ==
  IF i = 0 THEN 0
  ELSE LET j == Run(s, i, class) IN IF j > i THEN j ELSE 0

\* optional literal p? where the literal cannot start what follows
Opt(s, i, p) ==
  IF i = 0 THEN 0
  ELSE IF Lit(s, i, p) # 0 THEN Lit(s, i, p) ELSE i

\* last position j in lo..hi with s[j] = "\n", 0 if none
RECURSIVE LastNewline(_, _, _)
LastNewline(s, lo, hi) ==
  IF hi < lo THEN 0
  ELSE IF s[hi] = "\n" THEN hi ELSE LastNewline(s, lo, hi - 1)

\* \s*\n followed by something that cannot start with whitespace (or by the
\* end of the pattern): greedy \s* backtracks to the last newline of the run
SpacesNewline(s, i) ==
  IF i = 0 THEN 0
  ELSE LET j == Run(s, i, Whitespace)
           k == LastNewline(s, i, j - 1)
       IN IF k = 0 THEN 0 ELSE k + 1

\* \s*\n followed by \d+: the newline must be the last character of the run
SpacesNewlineThenDigit(s, i) ==
  IF i = 0 THEN 0
  ELSE LET j == Run(s, i, Whitespace)
       IN IF j > i /\ s[j - 1] = "\n" THEN j ELSE 0

S_Lines == <<"L", "i", "n", "e", "s", "=">>
S_Item == <<"+", "I", "t", "e", "m">>
S_Desc == <<"+", "D", "e", "s", "c", "=">>
S_Indicators == <<"I", "n", "d", "i", "c", "a", "t", "o", "r", "s", "=">>
S_WaitEnter == <<"W", "a", "i", "t", "E", "n", "t", "e", "r", "=">>
S_SystemInformation ==
  <<"S", "y", "s", "t", "e", "m", " ", "I", "n", "f", "o", "r", "m", "a",
    "t", "i", "o", "n", ":">>
S_Alerts == <<"A", "l", "e", "r", "t", "s", ":">>
S_title == <<"t", "i", "t", "l", "e">>
S_system == <<"s", "y", "s", "t", "e", "m", "_">>
S_name == <<"_", "n", "a", "m", "e">>
S_info == <<"_", "i", "n", "f", "o">>
S_train == <<"t", "r", "a", "i", "n", "_">>

\* Lines=\d+\n
LinesTail(s, i) == Lit(s, Plus(s, Lit(s, i, S_Lines), Digits), <<"\n">>)

\* \+Desc=\d+\nLines=\d+\n
MatchDesc(s, i) ==
  LinesTail(s, Lit(s, Plus(s, Lit(s, i, S_Desc), Digits), <<"\n">>))

\* \+[A-Za-z0-9]+\nLines=\d+\n
MatchTech(s, i) ==
  LinesTail(s, Lit(s, Plus(s, Lit(s, i, <<"+">>), Alnum), <<"\n">>))

\* \+Item\d+\nLines=\d+\n
MatchItem(s, i) ==
  LinesTail(s, Lit(s, Plus(s, Lit(s, i, S_Item), Digits), <<"\n">>))

\* \-?\d+\s*\n\d+\s*\n
MatchSystem(s, i) ==
  SpacesNewline(s,
    Plus(s, SpacesNewlineThenDigit(s, Plus(s, Opt(s, i, <<"-">>), Digits)),
         Digits))

\* [0-9]
OneDigit(s, i) ==
  IF i # 0 /\ i <= Len(s) /\ s[i] \in Digits THEN i + 1 ELSE 0

\* (?:Indicators\=[0-9]\n)?  and  (?:WaitEnter\=[0-9]\n)?
OptGroup(s, i, word) ==
  IF i = 0 THEN 0
  ELSE LET j == Lit(s, OneDigit(s, Lit(s, i, word)), <<"\n">>)
       IN IF j # 0 THEN j ELSE i

\* \-\d+\s*\n\d+\s*\n(?:Indicators\=[0-9]\n)?(?:WaitEnter\=[0-9]\n)?
MatchTrain(s, i) ==
  OptGroup(s,
    OptGroup(s,
      SpacesNewline(s,
        Plus(s, SpacesNewlineThenDigit(s, Plus(s, Lit(s, i, <<"-">>), Digits)),
             Digits)),
      S_Indicators),
    S_WaitEnter)

Match(pattern, s, i) ==
  CASE pattern = "desc" -> MatchDesc(s, i)
    [] pattern = "tech" -> MatchTech(s, i)
    [] pattern = "item" -> MatchItem(s, i)
    [] pattern = "system" -> MatchSystem(s, i)
    [] pattern = "train" -> MatchTrain(s, i)

\* re.split(r'(pattern)', s): <<prefix, header, body, header, body, ...>>
\* start is the beginning of the current piece; the next header is the
\* leftmost match at or after start
RECURSIVE ReSplitFrom(_, _, _)
ReSplitFrom(pattern, s, start) ==
  LET i == First({k \in start..Len(s) : Match(pattern, s, k) # 0})
  IN IF i = 0 THEN <<SubSeq(s, start, Len(s))>>
     ELSE <<SubSeq(s, start, i - 1), SubSeq(s, i, Match(pattern, s, i) - 1)>>
          \o ReSplitFrom(pattern, s, Match(pattern, s, i))

ReSplit(pattern, s) == ReSplitFrom(pattern, s, 1)

(* ------------------------------------------------------------------ *)
(* Parsers                                                             *)
(* ------------------------------------------------------------------ *)
\* _parse_text_file: loop body for one line, appended to entries
ParseTextLine(entries, raw) ==
  LET line == Strip(raw)
      kv == Split1(line, "=")
      key == Strip(kv[1])
      value == Strip(kv[2])
  IN IF line = <<>> \/ ~Contains(line, <<"=">>) THEN entries
     ELSE IF value # <<>> /\ ~StartsWith(value, <<"<">>)
          THEN Append(entries, [key |-> key, original |-> value,
                                translated |-> <<>>, type |-> "text"])
          ELSE entries

RECURSIVE ParseTextLoop(_, _, _)
ParseTextLoop(lines, i, entries) ==
  IF i > Len(lines) THEN entries
  ELSE ParseTextLoop(lines, i + 1, ParseTextLine(entries, lines[i]))

_parse_text_file(content) == ParseTextLoop(Split(content, "\n"), 1, <<>>)

\* header.split('\n')[0] of the stripped header
HeaderKey(header) == Split(Strip(header), "\n")[1]

\* ParsePlainSection that also emits an entry for an empty body
ParsePlainSection_KeepEmpty(entries, header, body, type) ==
  Append(entries, [key |-> HeaderKey(header), original |-> Strip(body),
                   translated |-> <<>>, type |-> type])

\* _parse_desc_file / _parse_item_file: loop body for one (header, body)
ParsePlainSection(entries, header, body, type) ==
  LET text == Strip(body)
  IN IF text # <<>>
     THEN Append(entries, [key |-> HeaderKey(header), original |-> text,
                           translated |-> <<>>, type |-> type])
     ELSE entries

\* loop shared by _parse_desc_file and _parse_item_file: sections[j] is a
\* header and sections[j + 1] its body (j = 2, 4, ...)
RECURSIVE ParsePlainLoop(_, _, _, _)
ParsePlainLoop(sections, j, type, entries) ==
  IF j > Len(sections) THEN entries
  ELSE IF j + 1 > Len(sections)
       THEN ParsePlainLoop(sections, j + 2, type, entries)
  ELSE ParsePlainLoop(sections, j + 2, type,
         ParsePlainSection(entries, sections[j], sections[j + 1], type))

_parse_desc_file(content) ==
  ParsePlainLoop(ReSplit("desc", content), 2, "desc", <<>>)

_parse_item_file(content) ==
  ParsePlainLoop(ReSplit("item", content), 2, "item", <<>>)

RECURSIVE ParseTechLoop(_, _, _)
ParseTechLoop(sections, j, entries) ==
  IF j > Len(sections) THEN entries
  ELSE IF j + 1 > Len(sections) THEN ParseTechLoop(sections, j + 2, entries)
  ELSE LET text == Strip(sections[j + 1])
           lines == Split(text, "\n")
           description == IF Len(lines) > 1 THEN Join(Tail(lines), <<"\n">>)
                          ELSE <<>>
       IN ParseTechLoop(sections, j + 2,
            IF text # <<>>
            THEN Append(entries, [key |-> HeaderKey(sections[j]),
                                  title |-> lines[1],
                                  original |-> description,
                                  translated |-> <<>>, type |-> "tech"])
            ELSE entries)

_parse_tech_file(content) == ParseTechLoop(ReSplit("tech", content), 2, <<>>)

\* the info lines of a system section: stripped, non-empty, not "Alerts:"
RECURSIVE InfoLines(_, _)
InfoLines(lines, i) ==
  IF i > Len(lines) THEN <<>>
  ELSE LET line == Strip(lines[i])
       IN (IF line # <<>> /\ ~StartsWith(line, S_Alerts) THEN <<line>>
           ELSE <<>>) \o InfoLines(lines, i + 1)

\* _parse_system_file: loop body for one non-empty section
ParseSystemSection(entries, section_content) ==
  LET lines == Split(section_content, "\n")
      system_name == Strip(Replace(lines[1], S_SystemInformation, <<>>))
      info_lines == InfoLines(lines, 2)
      named == Append(entries,
                 [key |-> S_system \o Str(Len(entries)) \o S_name,
                  original |-> system_name, translated |-> <<>>,
                  type |-> "system_name"])
  IN IF system_name # <<>> /\ Contains(lines[1], S_SystemInformation)
     THEN IF info_lines # <<>>
          THEN Append(named,
                 [key |-> S_system \o Str(Len(named) - 1) \o S_info,
                  original |-> Join(info_lines, <<"\n">>),
                  translated |-> <<>>, type |-> "system_info"])
          ELSE named
     ELSE Append(entries,
            [key |-> S_system \o Str(Len(entries)),
             original |-> section_content, translated |-> <<>>,
             type |-> "system_other"])

RECURSIVE ParseSystemLoop(_, _, _)
ParseSystemLoop(sections, j, entries) ==
  IF j > Len(sections) THEN entries
  ELSE IF j + 1 > Len(sections) THEN ParseSystemLoop(sections, j + 2, entries)
  ELSE LET section_content == Strip(sections[j + 1])
       IN ParseSystemLoop(sections, j + 2,
            IF section_content = <<>> THEN entries
            ELSE ParseSystemSection(entries, section_content))

_parse_system_file(content) ==
  ParseSystemLoop(ReSplit("system", content), 2, <<>>)

\* the text lines of a tutorial section: stripped, non-empty, no marker lines
RECURSIVE TextLines(_, _)
TextLines(lines, i) ==
  IF i > Len(lines) THEN <<>>
  ELSE LET line == Strip(lines[i])
       IN (IF line = <<>> \/ StartsWith(line, S_Indicators)
              \/ StartsWith(line, S_WaitEnter)
           THEN <<>> ELSE <<line>>) \o TextLines(lines, i + 1)

RECURSIVE ParseTrainLoop(_, _, _)
ParseTrainLoop(sections, j, entries) ==
  IF j > Len(sections) THEN entries
  ELSE IF j + 1 > Len(sections) THEN ParseTrainLoop(sections, j + 2, entries)
  ELSE LET section_content == Strip(sections[j + 1])
           text_lines == TextLines(Split(section_content, "\n"), 1)
       IN ParseTrainLoop(sections, j + 2,
            IF section_content = <<>> \/ text_lines = <<>> THEN entries
            ELSE Append(entries,
                   [key |-> S_train \o Str(Len(entries)),
                    original |-> Join(text_lines, <<" ">>),
                    translated |-> <<>>, type |-> "tutorial"]))

_parse_traintext_file(content) ==
  ParseTrainLoop(ReSplit("train", content), 2, <<>>)

(* ------------------------------------------------------------------ *)
(* Translation dictionary                                              *)
(* ------------------------------------------------------------------ *)
\* a dictionary value is a Python str or a Python dict (tech structure,
\* a function on a subset of {"title", "description"})
StrVal(s) == [isdict |-> FALSE, str |-> s, dict |-> [x \in {} |-> <<>>]]

DictVal(d) == [isdict |-> TRUE, str |-> <<>>, dict |-> d]

EmptyDict == [x \in {} |-> <<>>]

\* d[k] = v
Put(d, k, v) == [x \in (DOMAIN d) \cup {k} |-> IF x = k THEN v ELSE d[x]]

\* entry.get(field, '')
Get(entry, field) == IF field \in DOMAIN entry THEN entry[field] ELSE <<>>

\* apply_translation, loop body for one tech entry whose key and translated
\* are non-empty; exc is the KeyError of translations[key]
BuildTech(translations, entry, key, translated) ==
  LET title == Strip(Get(entry, "title"))
      t1 == IF title # <<>>
            THEN Put(translations, key,
                   DictVal(Put(IF key \in DOMAIN translations
                               THEN translations[key].dict ELSE EmptyDict,
                               "title", translated)))
            ELSE translations
      desc == Strip(Get(entry, "original"))
  IN IF desc = <<>> THEN [exc |-> FALSE, tr |-> t1]
     ELSE IF key \notin DOMAIN t1 THEN [exc |-> TRUE, tr |-> t1]
     ELSE IF "title" \notin DOMAIN t1[key].dict
          THEN [exc |-> FALSE,
                tr |-> Put(t1, key,
                         DictVal(Put(t1[key].dict, "description", translated)))]
          ELSE [exc |-> FALSE, tr |-> t1]

\* BuildEntry that keeps entries whose translated field is empty
BuildEntry_KeepEmpty(file_type, translations, entry) ==
  LET key == Get(entry, "key")
      translated == Strip(Get(entry, "translated"))
  IN IF key = <<>>
     THEN [exc |-> FALSE, tr |-> translations]
     ELSE IF file_type = "tech"
          THEN BuildTech(translations, entry, key, translated)
          ELSE [exc |-> FALSE, tr |-> Put(translations, key, StrVal(translated))]

\* apply_translation, loop body for one entry
BuildEntry(file_type, translations, entry) ==
  LET key == Get(entry, "key")
      translated == Strip(Get(entry, "translated"))
  IN IF key = <<>> \/ translated = <<>>
     THEN [exc |-> FALSE, tr |-> translations]
     ELSE IF file_type = "tech"
          THEN BuildTech(translations, entry, key, translated)
          ELSE [exc |-> FALSE, tr |-> Put(translations, key, StrVal(translated))]

\* apply_translation, the loop that builds the dictionary
RECURSIVE BuildTranslations(_, _, _, _)
BuildTranslations(file_type, entries, i, translations) ==
  IF i > Len(entries) THEN [exc |-> FALSE, tr |-> translations]
  ELSE LET r == BuildEntry(file_type, translations, entries[i])
       IN IF r.exc THEN r
          ELSE BuildTranslations(file_type, entries, i + 1, r.tr)

(* ------------------------------------------------------------------ *)
(* Appliers: each returns the exception flag, whether the file was     *)
(* written, and the written content                                    *)
(* ------------------------------------------------------------------ *)
\* ApplyTextLine with the key looked up as written in the file, untrimmed
ApplyTextLine_RawKey(line, translations) ==
  LET key == Split1(line, "=")[1]
  IN IF Contains(line, <<"=">>) /\ key \in DOMAIN translations
     THEN key \o <<"=">> \o translations[key].str \o <<"\n">>
     ELSE line

\* _apply_text_dat (the effective, later definition): one line
ApplyTextLine(line, translations) ==
  LET key == Strip(Split1(line, "=")[1])
  IN IF Contains(line, <<"=">>) /\ key \in DOMAIN translations
     THEN key \o <<"=">> \o translations[key].str \o <<"\n">>
     ELSE line

RECURSIVE ApplyTextLoop(_, _, _)
ApplyTextLoop(lines, i, translations) ==
  IF i > Len(lines) THEN <<>>
  ELSE <<ApplyTextLine(lines[i], translations)>>
       \o ApplyTextLoop(lines, i + 1, translations)

_apply_text_dat(content, translations) ==
  [exc |-> FALSE, wrote |-> TRUE,
   content |-> Concat(ApplyTextLoop(ReadLines(content), 1, translations))]

\* 'title' in value / 'description' in value
InValue(word, name, v) ==
  IF v.isdict THEN name \in DOMAIN v.dict ELSE Contains(v.str, word)

S_description ==
  <<"d", "e", "s", "c", "r", "i", "p", "t", "i", "o", "n">>

\* _apply_sectioned_file, the body of `if section_key in translations`:
\* the new section body, or exc (TypeError) when a str is indexed by
\* 'title' or a dict is added to a str
ApplySection(section_content, v) ==
  IF InValue(S_title, "title", v)
  THEN IF ~v.isdict THEN [exc |-> TRUE, body |-> section_content]
       ELSE LET lines == Split(section_content, "\n")
                first == v.dict["title"]
                new == IF InValue(S_description, "description", v)
                       THEN <<first>> \o Split(v.dict["description"], "\n")
                       ELSE <<first>> \o Tail(lines)
            IN [exc |-> FALSE, body |-> Join(new, <<"\n">>)]
  ELSE IF v.isdict THEN [exc |-> TRUE, body |-> section_content]
       ELSE [exc |-> FALSE, body |-> v.str \o <<"\n">>]

RECURSIVE ApplySectionLoop(_, _, _, _)
ApplySectionLoop(sections, j, translations, modified) ==
  IF j > Len(sections)
  THEN [exc |-> FALSE, sections |-> sections, modified |-> modified]
  ELSE IF j + 1 > Len(sections)
       THEN ApplySectionLoop(sections, j + 2, translations, modified)
  ELSE LET section_key == Strip(Split(Strip(sections[j]), "\n")[1])
       IN IF section_key \in DOMAIN translations
          THEN LET r == ApplySection(sections[j + 1], translations[section_key])
               IN IF r.exc
                  THEN [exc |-> TRUE, sections |-> sections,
                        modified |-> modified]
                  ELSE ApplySectionLoop(
                         [sections EXCEPT ![j + 1] = r.body], j + 2,
                         translations, TRUE)
          ELSE ApplySectionLoop(sections, j + 2, translations, modified)

\* _apply_sectioned_file that joins the sections with newlines
_apply_sectioned_file_NewlineJoin(content, translations, section_pattern) ==
  LET r == ApplySectionLoop(ReSplit(section_pattern, content), 2,
                            translations, FALSE)
  IN IF r.exc THEN [exc |-> TRUE, wrote |-> FALSE, content |-> content]
     ELSE IF r.modified
          THEN [exc |-> FALSE, wrote |-> TRUE,
                content |-> Join(r.sections, <<"\n">>)]
          ELSE [exc |-> FALSE, wrote |-> FALSE, content |-> content]

_apply_sectioned_file(content, translations, section_pattern) ==
  LET r == ApplySectionLoop(ReSplit(section_pattern, content), 2,
                            translations, FALSE)
  IN IF r.exc THEN [exc |-> TRUE, wrote |-> FALSE, content |-> content]
     ELSE IF r.modified
          THEN [exc |-> FALSE, wrote |-> TRUE, content |-> Concat(r.sections)]
          ELSE [exc |-> FALSE, wrote |-> FALSE, content |-> content]

\* _apply_system_dat (the effective, later definition)
RECURSIVE ApplySystemLoop(_, _, _)
ApplySystemLoop(content, i, translations) ==
  IF i >= Cardinality(DOMAIN translations) THEN content
  ELSE LET key == S_system \o Str(i)
       IN ApplySystemLoop(
            IF key \in DOMAIN translations
            THEN Replace(content, translations[key].str, translations[key].str)
            ELSE content,
            i + 1, translations)

_apply_system_dat(content, translations) ==
  [exc |-> FALSE, wrote |-> TRUE,
   content |-> ApplySystemLoop(content, 0, translations)]

(* ------------------------------------------------------------------ *)
(* Bounds and inputs                                                   *)
(* ------------------------------------------------------------------ *)
\* lines of a generated text.dat
MaxLines == 2

\* sections of a generated sectioned file
MaxSections == 2

\* game files present in the directory of the batch specification
MaxFiles == 2

\* menu operations (extract batch, apply batch) in one run
MaxOps == 2

\* changes made by the user between menu operations
MaxEdits == 2

\* translated texts a user may type
Texts == {<<"X">>, S_title}

\* all concatenations of at most n pieces
RECURSIVE Concats(_, _)
Concats(pieces, n) ==
  IF n = 0 THEN {<<>>}
  ELSE LET shorter == Concats(pieces, n - 1)
       IN shorter \cup {p \o c : p \in pieces, c \in shorter}

Sectioned(prefixes, headers, bodies, n) ==
  {p \o c : p \in prefixes, c \in Concats({h \o b : h \in headers, b \in bodies}, n)}

TextLinesIn ==
  {<<"A", "=", "b", "\n">>, <<" ", "A", " ", "=", " ", "c", " ", "\n">>,
   <<"A", "=", "<", "i", ">", "\n">>, <<"x", "\n">>, <<"\n">>,
   <<"B", "=", "d">>}

ItemHeaders ==
  {S_Item \o <<"1", "\n">> \o S_Lines \o <<"1", "\n">>,
   S_Item \o <<"2", "\n">> \o S_Lines \o <<"2", "\n">>}

DescHeaders == {S_Desc \o <<"1", "\n">> \o S_Lines \o <<"1", "\n">>}

TechHeaders == {<<"+", "F", "i", "r", "e", "\n">> \o S_Lines \o <<"2", "\n">>}

SystemHeaders == {<<"1", "\n", "2", "\n">>}

TrainHeaders == {<<"-", "1", "\n", "2", "\n">> \o S_Indicators \o <<"1", "\n">>}

ItemBodies == {<<"A", "\n">>, <<>>}

DescBodies ==
  {<<"A", "\n">>, <<"\n", "A", "\n", "B", "\n", "\n">>, <<>>}

TechBodies ==
  {<<"F", "b", "\n", "B", "u", "r", "n", "s", "\n">>, <<"S", "o", "l", "o", "\n">>}

SystemBodies ==
  {S_SystemInformation \o <<" ", "S", "o", "l", "\n", "I", "n", "f", "o", "\n">>
     \o S_Alerts \o <<" ", "a", "\n">>,
   S_SystemInformation \o <<" ", "S", "o", "l", "\n">>,
   <<"O", "t", "h", "e", "r", "\n", "\n", "M", "o", "r", "e", "\n">>}

TrainBodies ==
  {<<"H", "i", "\n", "y", "o", "u", "\n">>, S_WaitEnter \o <<"1", "\n">>}

\* the file contents the specifications start from, per game file
Contents(filename) ==
  CASE filename = "text.dat" -> Concats(TextLinesIn, MaxLines)
    [] filename = "systemdata.dat" ->
         Sectioned({<<>>}, SystemHeaders, SystemBodies, MaxSections)
    [] filename = "itemdata.dat" ->
         Sectioned({<<>>}, ItemHeaders, ItemBodies, MaxSections)
    [] filename = "optionsdata.dat" ->
         Sectioned({<<>>, <<"x", "\n">>}, DescHeaders, DescBodies, MaxSections)
    [] filename = "techdata.dat" ->
         Sectioned({<<>>}, TechHeaders, TechBodies, MaxSections)
    [] filename = "traintext.sw" ->
         Sectioned({<<>>}, TrainHeaders, TrainBodies, MaxSections)

\* one content per game file for the batch specification
Sample(filename) ==
  CASE filename = "text.dat" ->
         <<"A", "=", "b", "\n", "A", "=", "<", "i", ">", "\n">>
    [] filename = "systemdata.dat" ->
         <<"1", "\n", "2", "\n">> \o S_SystemInformation
           \o <<" ", "S", "o", "l", "\n", "I", "n", "f", "o", "\n">>
    [] filename = "itemdata.dat" ->
         S_Item \o <<"1", "\n">> \o S_Lines \o <<"1", "\n", "A", "\n">>
    [] filename = "optionsdata.dat" ->
         S_Desc \o <<"1", "\n">> \o S_Lines \o <<"1", "\n", "A", "\n">>
    [] filename = "techdata.dat" ->
         <<"+", "F", "i", "r", "e", "\n">> \o S_Lines
           \o <<"2", "\n", "F", "b", "\n", "B", "u", "r", "n", "s", "\n">>
    [] filename = "traintext.sw" ->
         <<"-", "1", "\n", "2", "\n", "H", "i", "\n">>

(* ------------------------------------------------------------------ *)
(* State                                                               *)
(* ------------------------------------------------------------------ *)
supported_files ==
  <<"text.dat", "systemdata.dat", "itemdata.dat", "optionsdata.dat",
    "techdata.dat", "traintext.sw">>

FileNames == {supported_files[i] : i \in DOMAIN supported_files}

NoFile == [exists |-> FALSE, data |-> <<>>]

File(content) == [exists |-> TRUE, data |-> content]

NoDocument ==
  [exists |-> FALSE, valid |-> FALSE, file_type |-> "", entries |-> <<>>]

\* a file that json.load rejects
Malformed ==
  [exists |-> TRUE, valid |-> FALSE, file_type |-> "", entries |-> <<>>]

Document(file_type, entries) ==
  [exists |-> TRUE, valid |-> TRUE, file_type |-> file_type,
   entries |-> entries]

Unbound == ""

VARIABLES
  game_dir,          \* game file name -> the file in the game directory
  backup,            \* game file name -> its .bak file
  translation_dir,   \* game file name -> its .json document
  pc,                \* position of the program
  cur,               \* index in supported_files of the apply batch
  translations,      \* apply_translation: the dictionary being applied
  original_file,     \* apply_translation: the local, Unbound until line 415
  processed_files,   \* main: files the apply batch has processed
  written,           \* game files written by the apply batch so far
  ops,               \* menu operations performed
  edits,             \* user changes performed
  translate_calls    \* translator.translate calls of the last auto_translate

vars ==
  <<game_dir, backup, translation_dir, pc, cur, translations, original_file,
    processed_files, written, ops, edits, translate_calls>>

CurFile == supported_files[cur]

InitWith(files) ==
  /\ game_dir = files
  /\ backup = [f \in FileNames |-> NoFile]
  /\ translation_dir = [f \in FileNames |-> NoDocument]
  /\ pc = "menu"
  /\ cur = 0
  /\ translations = EmptyDict
  /\ original_file = Unbound
  /\ processed_files = 0
  /\ written = {}
  /\ ops = 0
  /\ edits = 0
  /\ translate_calls = <<>>

\* a game directory that holds one of the given files, with a content of
\* that file's format
InitOne(names) ==
  \E n \in names : \E c \in Contents(n) :
    InitWith([f \in FileNames |-> IF f = n THEN File(c) ELSE NoFile])

\* the batch: at most MaxFiles of the supported files, each with its sample
Init ==
  \E present \in SUBSET FileNames :
    /\ present # {}
    /\ Cardinality(present) <= MaxFiles
    /\ InitWith([f \in FileNames |->
                   IF f \in present THEN File(Sample(f)) ELSE NoFile])

(* ------------------------------------------------------------------ *)
(* Extraction (menu choice 1)                                          *)
(* ------------------------------------------------------------------ *)
\* extract_text: the entries and file type chosen by file name
ParseFile(filename, content) ==
  CASE filename = "text.dat" ->
         [file_type |-> "text", entries |-> _parse_text_file(content)]
    [] filename = "optionsdata.dat" ->
         [file_type |-> "desc", entries |-> _parse_desc_file(content)]
    [] filename = "techdata.dat" ->
         [file_type |-> "tech", entries |-> _parse_tech_file(content)]
    [] filename = "itemdata.dat" ->
         [file_type |-> "item", entries |-> _parse_item_file(content)]
    [] filename = "systemdata.dat" ->
         [file_type |-> "system", entries |-> _parse_system_file(content)]
    [] filename = "traintext.sw" ->
         [file_type |-> "tutorial", entries |-> _parse_traintext_file(content)]

\* extract_text: the document left in the translation directory
extract_text(filename) ==
  LET parsed == ParseFile(filename, game_dir[filename].data)
  IN IF ~game_dir[filename].exists \/ parsed.entries = <<>>
     THEN translation_dir[filename]
     ELSE Document(parsed.file_type, parsed.entries)

\* main, choice '1': extract every supported file
ExtractAll ==
  /\ pc = "menu"
  /\ ops < MaxOps
  /\ ops' = ops + 1
  /\ translation_dir' = [f \in FileNames |-> extract_text(f)]
  /\ UNCHANGED <<game_dir, backup, pc, cur, translations, original_file,
                 processed_files, written, edits, translate_calls>>

(* ------------------------------------------------------------------ *)
(* Automatic translation (menu choice 3)                               *)
(* ------------------------------------------------------------------ *)
\* enumerate(data), line 535, for data as extract_text dumps it: a dict,
\* whose iteration yields its keys, which are strs
DataItems ==
  <<[isdict |-> FALSE, str |-> "metadata", dict |-> <<>>],
    [isdict |-> FALSE, str |-> "entries", dict |-> <<>>]>>

\* what one translator.translate call does: it raises, or returns a text
TranslateResults ==
  {[ok |-> FALSE, text |-> <<>>]} \cup {[ok |-> TRUE, text |-> t] : t \in Texts}

\* auto_translate, the loop of lines 535-550 from item i on; results[i] is
\* what the translator does if it is called for item i. entry.get on an
\* item that is a str raises AttributeError outside the inner try (exc)
RECURSIVE TranslateLoop(_, _, _, _, _)
TranslateLoop(file, items, i, results, calls) ==
  IF i > Len(items) THEN [exc |-> FALSE, items |-> items, calls |-> calls]
  ELSE IF ~items[i].isdict
       THEN [exc |-> TRUE, items |-> items, calls |-> calls]
  ELSE LET entry == items[i].dict
       IN IF Get(entry, "translated") = <<>> /\ Get(entry, "original") # <<>>
          THEN TranslateLoop(file,
                 [items EXCEPT ![i].dict =
                    Put(entry, "translated",
                        IF results[i].ok THEN results[i].text ELSE <<>>)],
                 i + 1, results,
                 Append(calls, [file |-> file, index |-> i,
                                ok |-> results[i].ok,
                                text |-> results[i].text]))
          ELSE TranslateLoop(file, items, i + 1, results, calls)

\* auto_translate, the body of the loop over the files (lines 524-559):
\* a document json.load rejects, or one whose loop raises, is not saved;
\* otherwise data, a dict whose keys the loop does not change, is dumped
auto_translate_file(file, doc, results) ==
  IF ~doc.valid THEN [saved |-> FALSE, doc |-> doc, calls |-> <<>>]
  ELSE LET done == TranslateLoop(file, DataItems, 1, results, <<>>)
       IN [saved |-> ~done.exc, doc |-> doc, calls |-> done.calls]

\* the calls of the pass over the files from position k on
RECURSIVE PassCalls(_, _)
PassCalls(pass, k) ==
  IF k > Len(supported_files) THEN <<>>
  ELSE pass[supported_files[k]].calls \o PassCalls(pass, k + 1)

\* main, choice '3' (lines 626-635): the pass is confirmed and begins
StartTranslate ==
  /\ pc = "menu"
  /\ ops < MaxOps
  /\ ops' = ops + 1
  /\ pc' = "translate"
  /\ translate_calls' = <<>>
  /\ UNCHANGED <<game_dir, backup, translation_dir, cur, translations,
                 original_file, processed_files, written, edits>>

\* auto_translate: one pass over every document, then back to the menu
AutoTranslate ==
  /\ pc = "translate"
  /\ pc' = "menu"
  /\ \E results \in [DOMAIN DataItems -> TranslateResults] :
       LET pass == [f \in FileNames |->
                      IF translation_dir[f].exists
                      THEN auto_translate_file(f, translation_dir[f], results)
                      ELSE [saved |-> FALSE, doc |-> translation_dir[f],
                            calls |-> <<>>]]
       IN /\ translation_dir' = [f \in FileNames |-> pass[f].doc]
          /\ translate_calls' = PassCalls(pass, 1)
  /\ UNCHANGED <<game_dir, backup, cur, translations, original_file,
                 processed_files, written, ops, edits>>

(* ------------------------------------------------------------------ *)
(* The user, between menu operations                                   *)
(* ------------------------------------------------------------------ *)
EditKinds == {"translated", "title", "corrupt"}

\* the document after one hand edit of entry i
Edited(doc, kind, i, text) ==
  CASE kind = "translated" ->
         IF doc.entries[i].translated = <<>>
         THEN [doc EXCEPT !.entries[i].translated = text]
         ELSE doc
    [] kind = "title" ->
         IF "title" \in DOMAIN doc.entries[i]
         THEN [doc EXCEPT !.entries[i].title = <<>>]
         ELSE doc
    [] kind = "corrupt" -> Malformed

\* the user edits one .json document: fills an empty translated field, blanks a
\* title, or leaves the file unparseable
HumanEdit ==
  /\ pc = "menu"
  /\ edits < MaxEdits
  /\ \E f \in FileNames, kind \in EditKinds, text \in Texts :
       /\ translation_dir[f].valid
       /\ \E i \in DOMAIN translation_dir[f].entries :
            /\ Edited(translation_dir[f], kind, i, text) # translation_dir[f]
            /\ translation_dir' =
                 [translation_dir EXCEPT ![f] = Edited(@, kind, i, text)]
  /\ edits' = edits + 1
  /\ UNCHANGED <<game_dir, backup, pc, cur, translations, original_file,
                 processed_files, written, ops, translate_calls>>

\* the user copies the original of one entry into its empty translated field
CopyOriginal ==
  /\ pc = "menu"
  /\ edits < MaxEdits
  /\ \E f \in FileNames :
       /\ translation_dir[f].valid
       /\ \E i \in DOMAIN translation_dir[f].entries :
            /\ translation_dir[f].entries[i].translated = <<>>
            /\ translation_dir' =
                 [translation_dir EXCEPT ![f].entries[i].translated =
                    translation_dir[f].entries[i].original]
  /\ edits' = edits + 1
  /\ UNCHANGED <<game_dir, backup, pc, cur, translations, original_file,
                 processed_files, written, ops, translate_calls>>

\* the user removes a game file from the directory
RemoveFile ==
  /\ pc = "menu"
  /\ edits < MaxEdits
  /\ \E f \in FileNames :
       /\ game_dir[f].exists
       /\ game_dir' = [game_dir EXCEPT ![f] = NoFile]
  /\ edits' = edits + 1
  /\ UNCHANGED <<backup, translation_dir, pc, cur, translations,
                 original_file, processed_files, written, ops, translate_calls>>

(* ------------------------------------------------------------------ *)
(* Apply (menu choice 2)                                               *)
(* ------------------------------------------------------------------ *)
\* main, lines 609-611: the apply batch starts
StartApply ==
  /\ pc = "menu"
  /\ ops < MaxOps
  /\ ops' = ops + 1
  /\ pc' = "loop"
  /\ cur' = 1
  /\ processed_files' = 0
  /\ written' = {}
  /\ UNCHANGED <<game_dir, backup, translation_dir, translations,
                 original_file, edits, translate_calls>>

\* main, lines 612-618: loop head; a file without document is skipped
NextFile ==
  /\ pc = "loop"
  /\ IF cur > Len(supported_files)
     THEN pc' = "menu" /\ cur' = 0
     ELSE IF translation_dir[CurFile].exists
          THEN pc' = "open" /\ cur' = cur
          ELSE pc' = "loop" /\ cur' = cur + 1
  /\ UNCHANGED <<game_dir, backup, translation_dir, translations,
                 original_file, processed_files, written, ops, edits,
                 translate_calls>>

\* apply_translation returns to main's loop, which counts the file
Return ==
  /\ pc' = "loop"
  /\ cur' = cur + 1
  /\ processed_files' = processed_files + 1
  /\ translations' = EmptyDict
  /\ original_file' = Unbound

\* apply_translation, lines 372-412: load the document and build the
\* dictionary.  An exception (JSONDecodeError, KeyError) is caught by the
\* handlers of lines 443-449, after which line 451 runs.
ApplyOpen ==
  /\ pc = "open"
  /\ LET doc == translation_dir[CurFile]
         built == BuildTranslations(doc.file_type, doc.entries, 1, EmptyDict)
     IN IF ~doc.valid \/ built.exc
        THEN /\ pc' = "print"
             /\ UNCHANGED <<cur, processed_files, translations, original_file>>
        ELSE IF built.tr = EmptyDict
             THEN Return
             ELSE /\ pc' = "backup"
                  /\ translations' = built.tr
                  /\ UNCHANGED <<cur, processed_files, original_file>>
  /\ UNCHANGED <<game_dir, backup, translation_dir, written, ops, edits,
                 translate_calls>>

\* copy2 that creates the backup file without its content
copy2_Truncated(file) == File(<<>>)

\* shutil.copy2(original_file, backup_file)
copy2(file) == File(file.data)

\* apply_translation, lines 414-424: bind original_file, check it, back up
ApplyBackup ==
  /\ pc = "backup"
  /\ IF ~game_dir[CurFile].exists
     THEN Return /\ UNCHANGED backup
     ELSE /\ backup' = [backup EXCEPT ![CurFile] = copy2(game_dir[CurFile])]
          /\ original_file' = CurFile
          /\ pc' = "dispatch"
          /\ UNCHANGED <<cur, processed_files, translations>>
  /\ UNCHANGED <<game_dir, translation_dir, written, ops, edits,
                 translate_calls>>

\* apply_translation, lines 427-439: the applier chosen by file name; none
\* for a file that matches no branch
Dispatch(filename, content, tr) ==
  CASE filename = "text.dat" -> _apply_text_dat(content, tr)
    [] filename = "optionsdata.dat" -> _apply_sectioned_file(content, tr, "desc")
    [] filename = "techdata.dat" -> _apply_sectioned_file(content, tr, "tech")
    [] filename = "itemdata.dat" -> _apply_sectioned_file(content, tr, "item")
    [] filename = "systemdata.dat" -> _apply_system_dat(content, tr)
    [] OTHER -> [exc |-> FALSE, wrote |-> FALSE, content |-> content]

Supported(filename) == filename # "traintext.sw"

\* apply_translation, lines 426-449: run the applier; an exception is caught
\* and line 451 runs; an unsupported file returns
ApplyDispatch ==
  /\ pc = "dispatch"
  /\ LET r == Dispatch(CurFile, game_dir[CurFile].data, translations)
     IN /\ game_dir' = IF r.wrote
                       THEN [game_dir EXCEPT ![CurFile] = File(r.content)]
                       ELSE game_dir
        /\ written' = IF r.wrote THEN written \cup {CurFile} ELSE written
  /\ IF Supported(CurFile)
     THEN pc' = "print" /\ UNCHANGED <<cur, processed_files, translations,
                                       original_file>>
     ELSE Return
  /\ UNCHANGED <<backup, translation_dir, ops, edits, translate_calls>>

\* apply_translation, line 451, and main, line 616: printing original_file
\* raises UnboundLocalError when line 415 was not reached; nothing in main
\* catches it
ApplyFinish ==
  /\ pc = "print"
  /\ IF original_file = Unbound
     THEN /\ pc' = "crashed"
          /\ UNCHANGED <<cur, processed_files, translations, original_file>>
     ELSE Return
  /\ UNCHANGED <<game_dir, backup, translation_dir, written, ops, edits,
                 translate_calls>>

Next ==
  \/ ExtractAll
  \/ StartTranslate
  \/ AutoTranslate
  \/ HumanEdit
  \/ RemoveFile
  \/ StartApply
  \/ NextFile
  \/ ApplyOpen
  \/ ApplyBackup
  \/ ApplyDispatch
  \/ ApplyFinish

\* the apply batch over a directory of sample files
Spec == Init /\ [][Next]_vars

\* one text.dat of any generated content
InitText == InitOne({"text.dat"})

SpecText == InitText /\ [][Next]_vars

\* one itemdata.dat or optionsdata.dat
InitSect == InitOne({"itemdata.dat", "optionsdata.dat"})

SpecSect == InitSect /\ [][Next]_vars

\* one techdata.dat
InitTech == InitOne({"techdata.dat"})

SpecTech == InitTech /\ [][Next]_vars

\* one systemdata.dat
InitSystem == InitOne({"systemdata.dat"})

SpecSystem == InitSystem /\ [][Next]_vars

\* one text.dat, itemdata.dat or optionsdata.dat
InitPlain == InitOne({"text.dat", "itemdata.dat", "optionsdata.dat"})

\* the menu operations and user changes, with translated := original edits
NextPlain == Next \/ CopyOriginal

SpecPlain == InitPlain /\ [][NextPlain]_vars

\* one game file of any format
InitAny == InitOne(FileNames)

SpecAny == InitAny /\ [][Next]_vars

(* ------------------------------------------------------------------ *)
(* Properties                                                          *)
(* ------------------------------------------------------------------ *)
\* the applier of filename has run in the current apply_translation call
Applied(filename) == pc = "print" /\ original_file = filename

\* content of the current file before and after the applier ran
Pre == backup[CurFile].data

Post == game_dir[CurFile].data

\* the characters of s
Chars(s) == {s[k] : k \in DOMAIN s}

\* the trimmed text before the first '=' of a line that has one
KeyOfLine(line) == Strip(SubSeq(line, 1, IndexOf(line, "=", 1) - 1))

\* the line is one the dictionary translates
Hit(line) == "=" \in Chars(line) /\ KeyOfLine(line) \in DOMAIN translations

\* C1: after the key-value applier ran on text.dat, the file is the lines
\* that were read, in order, where each line with '=' whose trimmed key is
\* in the dictionary is key=translated\n and every other line is unchanged
C1_KeyValueApply ==
  Applied("text.dat") =>
    LET read == ReadLines(Pre)
    IN Post = Concat([i \in DOMAIN read |->
                 IF Hit(read[i])
                 THEN KeyOfLine(read[i]) \o <<"=">>
                      \o translations[KeyOfLine(read[i])].str \o <<"\n">>
                 ELSE read[i]])

\* a text.dat was applied with one line replaced and one line with '=' kept
C1_Witness ==
  /\ Applied("text.dat")
  /\ \E i, j \in DOMAIN ReadLines(Pre) :
       /\ Hit(ReadLines(Pre)[i])
       /\ "=" \in Chars(ReadLines(Pre)[j])
       /\ ~Hit(ReadLines(Pre)[j])
  /\ Post # Pre

\* the header pattern of a plain sectioned file
PatternOf(filename) == IF filename = "itemdata.dat" THEN "item" ELSE "desc"

\* the pieces of a split file, each marked fixed unless it is the body of a
\* section whose key (first line of the trimmed header) is in the dictionary
FramePieces(sections) ==
  [k \in DOMAIN sections |->
     [fixed |-> ~(k > 1 /\ k % 2 = 1
                  /\ HeaderKey(sections[k - 1]) \in DOMAIN translations),
      text |-> sections[k]]]

\* s, read from pos, is the pieces from k on, in order, with any text in
\* place of a piece that is not fixed
RECURSIVE Framed(_, _, _, _)
Framed(pieces, k, s, pos) ==
  IF k > Len(pieces) THEN pos = Len(s) + 1
  ELSE IF pieces[k].fixed
       THEN /\ Lit(s, pos, pieces[k].text) # 0
            /\ Framed(pieces, k + 1, s, Lit(s, pos, pieces[k].text))
       ELSE \E next \in pos..(Len(s) + 1) : Framed(pieces, k + 1, s, next)

\* C2: after the sectioned applier ran on a desc or item file, the file is
\* the old prefix, headers and bodies in order, where only the bodies of
\* sections whose key is in the dictionary may hold other text
C2_SectionFrame ==
  \A f \in {"itemdata.dat", "optionsdata.dat"} :
    Applied(f) =>
      Framed(FramePieces(ReSplit(PatternOf(f), Pre)), 1, Post, 1)

\* a desc or item file was rewritten and one of its non-empty bodies, under
\* a key that is not in the dictionary, was left alone next to a replaced one
C2_Witness ==
  /\ \E f \in {"itemdata.dat", "optionsdata.dat"} : Applied(f)
  /\ CurFile \in written
  /\ Post # Pre
  /\ LET pieces == FramePieces(ReSplit(PatternOf(CurFile), Pre))
     IN \E j, k \in DOMAIN pieces :
          /\ ~pieces[j].fixed
          /\ k > 1 /\ k % 2 = 1 /\ pieces[k].fixed /\ pieces[k].text # <<>>

\* every translated field of the document is empty
AllEmpty(doc) ==
  \A i \in DOMAIN doc.entries : Strip(Get(doc.entries[i], "translated")) = <<>>

\* every key of the dictionary comes from an entry of the current document
\* whose translated field is not empty
DictFromFilled ==
  translations # EmptyDict =>
    \A k \in DOMAIN translations :
      \E i \in DOMAIN translation_dir[CurFile].entries :
        /\ Get(translation_dir[CurFile].entries[i], "key") = k
        /\ Strip(Get(translation_dir[CurFile].entries[i], "translated")) # <<>>

InApply == pc \in {"open", "backup", "dispatch", "print"}

\* C5: an entry with empty translated never yields a dictionary entry, and
\* while apply runs on a document whose translated fields are all empty no
\* file is written: game files, backups and the set of written files stay
C5_NoSilentOverwrite ==
  [][/\ DictFromFilled'
     /\ (InApply /\ translation_dir[CurFile].valid
          /\ AllEmpty(translation_dir[CurFile]))
        => /\ game_dir' = game_dir
           /\ backup' = backup
           /\ written' = written
           /\ translations' = EmptyDict]_vars

\* apply_translation returned for an existing game file whose document has
\* entries, all with empty translated; nothing was written or backed up
C5_Witness ==
  /\ pc = "loop"
  /\ cur >= 2
  /\ processed_files >= 1
  /\ LET f == supported_files[cur - 1]
     IN /\ translation_dir[f].valid
        /\ translation_dir[f].entries # <<>>
        /\ AllEmpty(translation_dir[f])
        /\ game_dir[f].exists
        /\ ~backup[f].exists
  /\ written = {}

\* C9: while apply runs, the documents are not touched; a game file is
\* written only if it exists, by the applier of the call that bound
\* original_file to it and backed it up, at a moment when the backup equals
\* the file; a backup is created only as a copy of an existing game file;
\* when the original does not exist nothing is written or created
C9_BackupPrecedesMutation ==
  [][pc \notin {"menu", "translate"} =>
       /\ translation_dir' = translation_dir
       /\ \A f \in FileNames :
            /\ (game_dir'[f] # game_dir[f] \/ f \in written' \ written)
               => /\ pc = "dispatch"
                  /\ f = CurFile
                  /\ original_file = f
                  /\ game_dir[f].exists
                  /\ backup[f] = game_dir[f]
            /\ backup'[f] # backup[f]
               => /\ pc = "backup"
                  /\ f = CurFile
                  /\ game_dir[f].exists
                  /\ backup'[f] = game_dir[f]
       /\ (pc \in {"backup", "dispatch"} /\ ~game_dir[CurFile].exists)
          => /\ game_dir' = game_dir
             /\ backup' = backup
             /\ written' = written]_vars

\* a game file was changed by apply and its backup holds the old content
C9_Witness ==
  /\ pc = "print"
  /\ original_file = CurFile
  /\ CurFile \in written
  /\ backup[CurFile].exists
  /\ backup[CurFile].data # game_dir[CurFile].data

\* the entries of the document of filename, translations blanked, are the
\* entries the parser emits for the content the applier read
FromParse(filename) ==
  LET doc == translation_dir[filename]
  IN /\ doc.valid
     /\ [i \in DOMAIN doc.entries |->
           [doc.entries[i] EXCEPT !.translated = <<>>]]
        = ParseFile(filename, backup[filename].data).entries

\* the line has a '=' and the trimmed text after the first '=' begins with '<'
TagValued(line) ==
  /\ "=" \in Chars(line)
  /\ StartsWith(Strip(From(line, IndexOf(line, "=", 1) + 1)), <<"<">>)

\* C6: for a text.dat applied with the entries parsed from it, translations
\* filled in, no entry holds a tag value and every line whose value begins
\* with '<' is the same line of the file after apply
C6_TagLinesProtected ==
  (Applied("text.dat") /\ FromParse("text.dat")) =>
    LET read == ReadLines(Pre)
        after == ReadLines(Post)
        entries == translation_dir["text.dat"].entries
    IN /\ \A j \in DOMAIN entries : ~StartsWith(entries[j].original, <<"<">>)
       /\ \A i \in DOMAIN read :
            TagValued(read[i]) => i \in DOMAIN after /\ after[i] = read[i]

\* the translated text of the first entry, in document order, that has key k
\* and a non-empty translated field
FirstFilled(entries, k) ==
  LET filled == {i \in DOMAIN entries :
                   /\ Get(entries[i], "key") = k
                   /\ Strip(Get(entries[i], "translated")) # <<>>}
      first == CHOOSE i \in filled : \A j \in filled : i <= j
  IN Strip(entries[first].translated)

\* C7: the dictionary of a desc or item document maps every key to the
\* translated text of the first entry with that key, and the rewritten file
\* holds that text as the body of the sections with that key
C7_FirstMatchWins ==
  \A f \in {"itemdata.dat", "optionsdata.dat"} :
    /\ (pc \in {"backup", "dispatch", "print"} /\ CurFile = f)
       => \A k \in DOMAIN translations :
            translations[k].str
              = FirstFilled(translation_dir[f].entries, k)
    /\ (Applied(f) /\ f \in written)
       => LET old == ReSplit(PatternOf(f), Pre)
          IN Post = Concat([k \in DOMAIN old |->
                      IF FramePieces(old)[k].fixed THEN old[k]
                      ELSE FirstFilled(translation_dir[f].entries,
                                       HeaderKey(old[k - 1])) \o <<"\n">>])

\* entry i of the tech document asks for a description only / a title only
DescriptionOnly(entry) ==
  /\ Strip(Get(entry, "translated")) # <<>>
  /\ Strip(Get(entry, "title")) = <<>>
  /\ Strip(Get(entry, "original")) # <<>>

TitleOnly(entry) ==
  /\ Strip(Get(entry, "translated")) # <<>>
  /\ Strip(Get(entry, "title")) # <<>>

\* the header positions of the sections with key k
SectionsWithKey(sections, k) ==
  {j \in DOMAIN sections : j % 2 = 0 /\ HeaderKey(sections[j]) = k}

\* C3: when apply_translation is over for a valid tech document, it did not
\* fail, and for every filled entry: a title-only update replaced the first
\* line of the section body and kept the other lines; a description-only
\* update kept the first line and replaced the other lines
C3_TitleDescriptionIndependence ==
  (pc \in {"print", "crashed"} /\ CurFile = "techdata.dat"
     /\ translation_dir["techdata.dat"].valid
     /\ game_dir["techdata.dat"].exists)
  => /\ pc = "print"
     /\ original_file = "techdata.dat"
     /\ LET old == ReSplit("tech", Pre)
            new == ReSplit("tech", Post)
            entries == translation_dir["techdata.dat"].entries
        IN /\ Len(new) = Len(old)
           /\ \A i \in DOMAIN entries :
                \A j \in SectionsWithKey(old, Get(entries[i], "key")) :
                  LET was == Split(old[j + 1], "\n")
                      now == Split(new[j + 1], "\n")
                      text == Strip(Get(entries[i], "translated"))
                  IN /\ DescriptionOnly(entries[i])
                        => now[1] = was[1] /\ Tail(now) = Split(text, "\n")
                     /\ TitleOnly(entries[i])
                        => now[1] = text /\ Tail(now) = Tail(was)

\* the header position of the section from which entry i was extracted
SectionOfEntry(sections, i) ==
  CHOOSE j \in DOMAIN sections :
    /\ j % 2 = 0
    /\ Len(ParseSystemLoop(SubSeq(sections, 1, j - 1), 2, <<>>)) < i
    /\ i <= Len(ParseSystemLoop(SubSeq(sections, 1, j + 1), 2, <<>>))

\* C4: after the system applier ran with the entries parsed from the file,
\* for every system_<n>_name entry with a new translated text the first line
\* of the section it was extracted from holds that text, the other lines of
\* that section and every header are unchanged
C4_SystemSegmentApply ==
  (Applied("systemdata.dat") /\ FromParse("systemdata.dat")) =>
    LET old == ReSplit("system", Pre)
        new == ReSplit("system", Post)
        entries == translation_dir["systemdata.dat"].entries
    IN \A i \in DOMAIN entries :
         (/\ entries[i].type = "system_name"
          /\ Strip(entries[i].translated) # <<>>
          /\ Strip(entries[i].translated) # entries[i].original)
         => /\ Len(new) = Len(old)
            /\ \A k \in DOMAIN old : k % 2 = 0 => new[k] = old[k]
            /\ LET j == SectionOfEntry(old, i)
                   was == Split(old[j + 1], "\n")
                   now == Split(new[j + 1], "\n")
               IN /\ now[1] # was[1]
                  /\ Contains(now[1], Strip(entries[i].translated))
                  /\ Tail(now) = Tail(was)

C10_FailureIsolation ==
  /\ ~(pc = "crashed" /\ ~translation_dir[CurFile].valid)
  /\ (pc = "loop" /\ cur > Len(supported_files))
     => processed_files
          = Cardinality({f \in FileNames : translation_dir[f].exists})

\* C12: after the tech applier ran with the entries parsed from the file,
\* for every entry with a non-empty title, a non-empty original and a filled
\* translated, whose key names one section: the first line of that section's
\* body (the title) is unchanged and the lines after it (the description,
\* from which original was extracted) hold translated
C12_TechDescriptionPlacement ==
  (Applied("techdata.dat") /\ FromParse("techdata.dat")) =>
    LET old == ReSplit("tech", Pre)
        new == ReSplit("tech", Post)
        entries == translation_dir["techdata.dat"].entries
    IN \A i \in DOMAIN entries :
         (/\ entries[i].title # <<>>
          /\ entries[i].original # <<>>
          /\ Strip(entries[i].translated) # <<>>
          /\ Cardinality(SectionsWithKey(old, entries[i].key)) = 1)
         => /\ Len(new) = Len(old)
            /\ \A j \in SectionsWithKey(old, entries[i].key) :
                 LET was == Split(old[j + 1], "\n")
                     now == Split(new[j + 1], "\n")
                 IN /\ now[1] = was[1]
                    /\ Strip(Join(Tail(now), <<"\n">>))
                         = Strip(entries[i].translated)

\* C13: after apply_translation is over for a desc or item file whose
\* document is valid, every section whose key maps in the dictionary to a
\* plain string has that string followed by one newline as its body in the
\* file, every other piece is unchanged, and if there is such a section the
\* applier completed and wrote the file
C13_PlainBodyAnyString ==
  \A f \in {"itemdata.dat", "optionsdata.dat"} :
    Applied(f) =>
      LET old == ReSplit(PatternOf(f), Pre)
          pieces == FramePieces(old)
      IN /\ (\E k \in DOMAIN pieces : ~pieces[k].fixed) => f \in written
         /\ Post = Concat([k \in DOMAIN old |->
                      IF pieces[k].fixed THEN old[k]
                      ELSE translations[HeaderKey(old[k - 1])].str
                           \o <<"\n">>])

\* C14: after the applier ran on a key-value, desc or item file with the
\* entries parsed from it, where each translated field is empty or equal to
\* the entry's original, the file is byte-identical to the content read
C14_ApplyInvertsParse ==
  \A f \in {"text.dat", "optionsdata.dat", "itemdata.dat"} :
    (/\ Applied(f)
     /\ FromParse(f)
     /\ \A i \in DOMAIN translation_dir[f].entries :
          translation_dir[f].entries[i].translated
            \in {<<>>, translation_dir[f].entries[i].original})
    => Post = Pre

\* the positions in calls of the translator calls made for entry i of the
\* document of file f
CallsFor(calls, f, i) ==
  {c \in DOMAIN calls : calls[c].file = f /\ calls[c].index = i}

\* C11: in every auto_translate pass, for every valid document and every
\* entry of it with an empty translated and a non-empty original, the
\* translator is called exactly once for that entry, and the document
\* afterwards holds the returned text as its translated if the call
\* succeeded and an empty translated if the call failed
C11_TranslateAllPass ==
  [][pc = "translate" =>
       \A f \in FileNames :
         translation_dir[f].valid =>
           \A i \in DOMAIN translation_dir[f].entries :
             (/\ translation_dir[f].entries[i].translated = <<>>
              /\ translation_dir[f].entries[i].original # <<>>)
             => /\ Cardinality(CallsFor(translate_calls', f, i)) = 1
                /\ translation_dir'[f].valid
                /\ \A c \in CallsFor(translate_calls', f, i) :
                     translation_dir'[f].entries[i].translated
                       = IF translate_calls'[c].ok
                         THEN translate_calls'[c].text
                         ELSE <<>>]_vars

====
